---- MODULE Spec2Model ----
(***************************************************************************)
(* A model of sygnals/core/dsp.py: the DSP wrappers compute_fft,           *)
(* compute_ifft, compute_stft, apply_convolution, compute_correlation,     *)
(* compute_autocorrelation, amplitude_envelope and apply_window.           *)
(*                                                                         *)
(* Every public function is one action: it reads the arguments of the     *)
(* call, runs the whole body (validation, library calls, exception         *)
(* handlers) and leaves the outcome in ret.  The only state that outlives  *)
(* a call is the module-level flag _RMS_ENERGY_AVAILABLE.                  *)
(*                                                                         *)
(* Samples are exact integers, so "equal within floating tolerance" is     *)
(* equality here.  Library routines (scipy.signal.fftconvolve, correlate,  *)
(* get_window, scipy.fft.fft/ifft/fftfreq, librosa.stft) are modelled by   *)
(* the arithmetic they are documented to perform.                          *)
(***************************************************************************)
EXTENDS Integers, Sequences, FiniteSets, TLC

VARIABLES
    rmsAvailable,   \* _RMS_ENERGY_AVAILABLE (dsp.py:23-28)
    pc,             \* "idle": no call in progress; "done": a call has returned or raised
    call,           \* the operation called and its arguments
    ret             \* the outcome: status ("ok" or the exception), the value
                    \* returned, the computation steps started

vars == <<rmsAvailable, pc, call, ret>>

----------------------------------------------------------------------------
(* Bounds of the model *)

\* longest data / kernel / x / y sequence drawn as an input
MaxLen == 3

\* sample values the input sequences are drawn from
Samples == {-1, 0, 2}

----------------------------------------------------------------------------
(* Generic helpers *)

None == <<>>
Some(v) == <<v>>
IsNone(o) == o = <<>>
Get(o) == o[1]

Max(a, b) == IF a >= b THEN a ELSE b
Min(a, b) == IF a <= b THEN a ELSE b

\* ceil(a / b) for b > 0
CeilDiv(a, b) == (a + b - 1) \div b

\* all sequences over S of length lo..hi
SeqsOf(S, lo, hi) == UNION {[1..n -> S] : n \in lo..hi}

Reverse(s) == [i \in 1..Len(s) |-> s[Len(s) + 1 - i]]

\* a numpy array: its number of dimensions and (for a 1-D array) its samples
Arr1(s) == [ndim |-> 1, v |-> s]
Arr2D == [ndim |-> 2, v |-> <<>>]

\* the outcome of a call: a returned value, or the exception raised
Ok(value, steps) == [status |-> "ok", value |-> value, steps |-> steps]
Raise(kind, steps) == [status |-> kind, steps |-> steps]

----------------------------------------------------------------------------
(* scipy.signal.fftconvolve, as called by apply_convolution *)

RECURSIVE ConvTerm(_, _, _, _)
\* sum over i in 1..upto of a[i] * b[k + 1 - i], where that index of b exists
ConvTerm(a, b, k, upto) ==
    IF upto = 0 THEN 0
    ELSE (IF k + 1 - upto >= 1 /\ k + 1 - upto <= Len(b)
          THEN a[upto] * b[k + 1 - upto] ELSE 0)
         + ConvTerm(a, b, k, upto - 1)

\* the full linear convolution of two non-empty sequences, length N + M - 1
FullConv(a, b) == [k \in 1..(Len(a) + Len(b) - 1) |-> ConvTerm(a, b, k, Len(a))]

\* scipy.signal._signaltools._centered: the middle newlen entries of arr
Centered(arr, newlen) ==
    LET start == (Len(arr) - newlen) \div 2
    IN  SubSeq(arr, start + 1, start + newlen)

\* scipy.signal._signaltools._inputs_swap_needed for 1-D inputs
InputsSwapNeeded(mode, n1, n2) == mode = "valid" /\ n1 < n2

\* a variant of SameLength that sizes 'same' output as numpy.convolve does
SameLengthNumpy(n1, n2) == Max(n1, n2)

\* the length 'same' mode trims to: the size of the first input
SameLength(n1, n2) == n1

fftconvolve(in1, in2, mode) ==
    IF Len(in1) = 0 \/ Len(in2) = 0 THEN <<>>
    ELSE LET swap == InputsSwapNeeded(mode, Len(in1), Len(in2))
             a    == IF swap THEN in2 ELSE in1
             b    == IF swap THEN in1 ELSE in2
             full == FullConv(a, b)
         IN  CASE mode = "full"  -> full
               [] mode = "same"  -> Centered(full, SameLength(Len(a), Len(b)))
               [] mode = "valid" -> Centered(full, Len(a) - Len(b) + 1)

Modes == {"full", "valid", "same"}

\* apply_convolution: the 1-D check, then fftconvolve; any exception re-raised
apply_convolution(data, kernel, mode) ==
    IF data.ndim # 1 \/ kernel.ndim # 1
    THEN Raise("ValueError", <<>>)
    ELSE Ok(fftconvolve(data.v, kernel.v, mode), <<"fftconvolve">>)

----------------------------------------------------------------------------
(* scipy.signal.correlate, as called by compute_correlation *)

RECURSIVE CorrTerm(_, _, _, _)
\* sum over l in 1..upto of a[l + lag] * v[l], where that index of a exists
CorrTerm(a, v, lag, upto) ==
    IF upto = 0 THEN 0
    ELSE (IF upto + lag >= 1 /\ upto + lag <= Len(a)
          THEN a[upto + lag] * v[upto] ELSE 0)
         + CorrTerm(a, v, lag, upto - 1)

\* every lag -(M-1)..(N-1) of the sliding product; entry k is lag k - M
FullCorr(a, v) ==
    [k \in 1..(Len(a) + Len(v) - 1) |-> CorrTerm(a, v, k - Len(v), Len(v))]

\* numpy's correlate for len(a) >= len(v): the lags each mode keeps
NpCorrelateCore(a, v, mode) ==
    LET N == Len(a)
        M == Len(v)
        full == FullCorr(a, v)
    IN  CASE mode = "full"  -> full
          [] mode = "valid" -> SubSeq(full, M, N)
          [] mode = "same"  -> SubSeq(full, M - (M \div 2), M - (M \div 2) + N - 1)

\* a variant of NpCorrelate that forgets to undo the swap of its arguments
NpCorrelateNoUndo(a, v, mode) ==
    IF Len(a) < Len(v) THEN NpCorrelateCore(v, a, mode)
    ELSE NpCorrelateCore(a, v, mode)

\* numpy.correlate: a shorter first argument is swapped with the second and
\* the result reversed
NpCorrelate(a, v, mode) ==
    IF Len(a) < Len(v) THEN Reverse(NpCorrelateCore(v, a, mode))
    ELSE NpCorrelateCore(a, v, mode)

\* numpy.convolve: the longer argument first, then the sliding product
\* against the reversed shorter one
NpConvolve(a, v, mode) ==
    IF Len(a) < Len(v) THEN NpCorrelateCore(v, Reverse(a), mode)
    ELSE NpCorrelateCore(a, Reverse(v), mode)

\* scipy.signal._signaltools._np_conv_ok for 1-D inputs
NpConvOk(volume, kernel, mode) ==
    mode \in {"full", "valid"} \/ (mode = "same" /\ Len(volume) >= Len(kernel))

\* correlate(method='direct'): numpy's routine when it applies, else the
\* zero-padded N-D routine ('same' with a longer second input), which keeps
\* the len(in1) entries centred in the full result
CorrelateDirect(in1, in2, mode) ==
    IF NpConvOk(in1, in2, mode) THEN NpCorrelate(in1, in2, mode)
    ELSE Centered(FullCorr(in1, in2), Len(in1))

\* scipy.signal.convolve; chosen is what choose_conv_method returns for 'auto'
convolve(in1, in2, mode, method, chosen) ==
    LET swap   == InputsSwapNeeded(mode, Len(in1), Len(in2))
        volume == IF swap THEN in2 ELSE in1
        kernel == IF swap THEN in1 ELSE in2
        m      == IF method = "auto" THEN chosen ELSE method
    IN  IF m = "fft" THEN fftconvolve(volume, kernel, mode)
        ELSE IF NpConvOk(volume, kernel, mode) THEN NpConvolve(volume, kernel, mode)
        ELSE CorrelateDirect(volume, Reverse(kernel), mode)

\* scipy.signal.correlate for non-empty real 1-D inputs
correlate(in1, in2, mode, method, chosen) ==
    IF method = "direct" THEN CorrelateDirect(in1, in2, mode)
    ELSE convolve(in1, Reverse(in2), mode, method, chosen)

Methods == {"auto", "direct", "fft"}

\* compute_correlation: the 1-D check, then correlate; any exception re-raised
compute_correlation(x, y, mode, method, chosen) ==
    IF x.ndim # 1 \/ y.ndim # 1
    THEN Raise("ValueError", <<>>)
    ELSE Ok(correlate(x.v, y.v, mode, method, chosen), <<"correlate">>)

\* a variant of compute_autocorrelation that convolves x with itself
autocorrelation_by_convolution(x, mode, method, chosen) ==
    compute_correlation(x, Arr1(Reverse(x.v)), mode, method, chosen)

\* compute_autocorrelation: the correlation of x with itself
compute_autocorrelation(x, mode, method, chosen) ==
    compute_correlation(x, x, mode, method, chosen)

----------------------------------------------------------------------------
(* scipy.signal.get_window and apply_window *)

(* Window coefficients are kept as integer numerators over WinDen, and the  *)
(* signals handed to compute_fft are multiples of WinDen, so that every     *)
(* windowed sample is an exact integer.                                     *)
WinDen == 4

\* 2*cos(2*pi*n/P), for the periods P at which it is an integer
TwoCos(n, P) ==
    CASE P = 1 -> 2
      [] P = 2 -> <<2, -2>>[(n % 2) + 1]
      [] P = 3 -> <<2, -1, -1>>[(n % 3) + 1]
      [] P = 4 -> <<2, 0, -2, 0>>[(n % 4) + 1]
      [] P = 6 -> <<2, 1, -1, -2, -1, 1>>[(n % 6) + 1]

\* the symmetric Hann window 0.5 - 0.5*cos(2*pi*n/(L-1)), times WinDen;
\* a window of length 0 or 1 is all ones
Hann(L) ==
    IF L <= 1 THEN [i \in 1..L |-> WinDen]
    ELSE [i \in 1..L |-> 2 - TwoCos(i - 1, L - 1)]

\* the rectangular window, times WinDen
Boxcar(L) == [i \in 1..L |-> WinDen]

\* the window names scipy.signal.get_window knows, as far as the model draws them
KnownWindows == {"hann", "boxcar"}

\* get_window(window_type, L, fftbins=False): an unknown name is a ValueError
get_window(window_type, L) ==
    CASE window_type = "hann"   -> Ok(Hann(L), <<>>)
      [] window_type = "boxcar" -> Ok(Boxcar(L), <<>>)
      [] OTHER                  -> Raise("ValueError", <<>>)

\* data * window can be computed: float data multiplies, object data (elements
\* that do not multiply with floats) makes numpy raise TypeError at the first
\* element, so an empty array of any dtype multiplies
CanMultiply(data) == data.dtype = "float64" \/ Len(data.v) = 0

\* apply_window: 1-D check, get_window, length check, element-wise product;
\* ValueError is re-raised as ValueError, any other exception as itself
apply_window(data, window_type) ==
    IF data.ndim # 1 THEN Raise("ValueError", <<>>)
    ELSE LET w == get_window(window_type, Len(data.v))
         IN  IF w.status # "ok" THEN Raise("ValueError", <<"get_window">>)
             ELSE IF Len(w.value) # Len(data.v)
                  THEN Raise("ValueError", <<"get_window">>)
             ELSE IF ~CanMultiply(data)
                  THEN Raise("TypeError", <<"get_window", "multiply">>)
             ELSE Ok([data EXCEPT !.v =
                         [i \in 1..Len(data.v) |-> (data.v[i] * w.value[i]) \div WinDen]],
                     <<"get_window", "multiply">>)

----------------------------------------------------------------------------
(* scipy.fft.fft, ifft and fftfreq *)

(* A complex bin of a length-N transform is a number of the cyclotomic     *)
(* field of order N: an integer combination of the powers of                *)
(* z = exp(-2*pi*i/N).  It is kept in canonical form, the coefficients of  *)
(* z^0 .. z^(d-1), d the degree of the N-th cyclotomic polynomial, so that *)
(* two bins are equal as complex numbers iff their coefficients are equal. *)

\* the N-th cyclotomic polynomial, coefficients of x^0, x^1, ...
Phi(N) ==
    CASE N = 1 -> <<-1, 1>>
      [] N = 2 -> <<1, 1>>
      [] N = 3 -> <<1, 1, 1>>
      [] N = 4 -> <<1, 0, 1>>
      [] N = 5 -> <<1, 1, 1, 1, 1>>
      [] N = 6 -> <<1, -1, 1>>
      [] N = 7 -> <<1, 1, 1, 1, 1, 1, 1>>
      [] N = 8 -> <<1, 0, 0, 0, 1>>

RECURSIVE PolyRem(_, _, _)
\* the remainder of the polynomial c (degree <= j) divided by the monic phi
PolyRem(c, j, phi) ==
    LET d == Len(phi) - 1
    IN  IF j < d THEN SubSeq(c, 1, d)
        ELSE LET q == c[j + 1]
             IN  PolyRem([i \in 1..Len(c) |->
                            IF i - 1 >= j - d /\ i - 1 <= j
                            THEN c[i] - q * phi[i - (j - d)]
                            ELSE c[i]],
                         j - 1, phi)

\* canonical form of the combination c[1]*z^0 + ... + c[N]*z^(N-1)
Canon(c, N) == PolyRem(c, N - 1, Phi(N))

\* scipy.fft's _fix_shape_1d: zero-pad or truncate x to n samples
FixShape(x, n) == [i \in 1..n |-> IF i <= Len(x) THEN x[i] ELSE 0]

RECURSIVE BinCoef(_, _, _, _, _)
\* sum of v[t] over the samples t in 0..top whose twiddle z^(k*t) is z^j
BinCoef(v, k, j, N, top) ==
    IF top < 0 THEN 0
    ELSE (IF (k * top) % N = j THEN v[top + 1] ELSE 0) + BinCoef(v, k, j, N, top - 1)

\* bin k of the transform: sum over t of v[t] * z^(k*t)
DftBin(v, k, N) == Canon([j \in 1..N |-> BinCoef(v, k, j - 1, N, N - 1)], N)

\* fft(x, n): the n bins of x padded or truncated to n samples
FFT(x, n) ==
    LET v == FixShape(x, n)
    IN  [k \in 1..n |-> DftBin(v, k - 1, n)]

RECURSIVE InvCoef(_, _, _, _, _)
\* coefficient of z^j in the sum over bins k in 0..top of X[k] * z^(-k*m)
InvCoef(X, m, j, N, top) ==
    IF top < 0 THEN 0
    ELSE (LET i == (j + top * m) % N
          IN  IF i < Len(X[top + 1]) THEN X[top + 1][i + 1] ELSE 0)
         + InvCoef(X, m, j, N, top - 1)

\* N times sample m of the inverse transform, as a field element
InvSum(X, m, N) == Canon([j \in 1..N |-> InvCoef(X, m, j - 1, N, N - 1)], N)

\* c plus (sign = 1) or minus (sign = -1) its complex conjugate
WithConj(c, N, sign) ==
    Canon([j \in 1..N |->
             (IF j <= Len(c) THEN c[j] ELSE 0)
             + sign * (LET i == (N - (j - 1)) % N
                       IN  IF i < Len(c) THEN c[i + 1] ELSE 0)],
          N)

\* c is a rational number: no power of z above z^0 is left
IsRational(c) == \A i \in 2..Len(c) : c[i] = 0

\* ifft(X, n) for len(X) = n, real part: sample m is Real2N[m] / (2n)
IFFT2N(X, N) == [m \in 1..N |-> WithConj(InvSum(X, m - 1, N), N, 1)[1]]

\* a variant of FftFreqIndex that counts bin n/2 of an even n as positive
FftFreqIndexNyquistPositive(k, n) == IF k <= n \div 2 THEN k ELSE k - n

\* fftfreq's signed bin index: 0..(n-1)//2, then -(n//2)..-1
FftFreqIndex(k, n) == IF k <= (n - 1) \div 2 THEN k ELSE k - n

\* fftfreq(n, d=1/fs): bin k is FftFreqIndex(k, n)*fs/n; kept as the
\* numerators over the common denominator n
fftfreq(n, fs) == [k \in 1..n |-> FftFreqIndex(k - 1, n) * fs]

\* a variant of WindowedInput that fits the data to n samples before the
\* window is applied
FittedInput(data, n) ==
    IF IsNone(n) \/ Get(n) < 1 THEN data
    ELSE [data EXCEPT !.v = FixShape(data.v, Get(n))]

\* what compute_fft hands to apply_window: the whole of data, whatever n is
WindowedInput(data, n) == data

\* compute_fft.  window and n are optional (None or Some(value)).
compute_fft(data, fs, n, window) ==
    IF data.ndim # 1 THEN Raise("ValueError", <<>>)
    ELSE
    LET truthy == ~IsNone(window) /\ Get(window) # ""
        win    == IF truthy THEN apply_window(WindowedInput(data, n), Get(window))
                  ELSE Ok(data, <<>>)
        \* a non-ValueError exception is logged and the original data kept
        data_processed == IF win.status = "ok" THEN win.value ELSE data
        N      == IF IsNone(n) THEN Len(data_processed.v) ELSE Get(n)
    IN  IF win.status = "ValueError" THEN Raise("ValueError", win.steps)
        ELSE IF N < 1 THEN Raise("ValueError", win.steps \o <<"fft">>)
        ELSE IF fs = 0 THEN Raise("ZeroDivisionError", win.steps \o <<"fft">>)
        ELSE [status |-> "ok", steps |-> win.steps \o <<"fft", "fftfreq">>,
              freqs |-> fftfreq(N, fs), spectrum |-> FFT(data_processed.v, N)]

\* compute_ifft, for a spectrum of n bins (n None or len(spectrum)); sample m
\* of the signal returned is num[m] / den
compute_ifft(spectrum, n) ==
    IF spectrum.ndim # 1 THEN Raise("ValueError", <<>>)
    ELSE LET N == IF IsNone(n) THEN Len(spectrum.v) ELSE Get(n)
         IN  IF N < 1 THEN Raise("ValueError", <<"ifft">>)
             ELSE [status |-> "ok", steps |-> <<"ifft">>,
                   num |-> IFFT2N(spectrum.v, N), den |-> 2 * N]

----------------------------------------------------------------------------
(* librosa.stft, as called by compute_stft *)

(* The signal is kept by its length alone: the shape of the result and the *)
(* positions of the frames do not depend on the samples.                   *)

\* a variant of PadAmount that never pads
PadAmountNone(n_fft, center) == 0

\* samples added on each side of the signal: n_fft // 2 when centered
PadAmount(n_fft, center) == IF center THEN n_fft \div 2 ELSE 0

\* librosa.util.frame: the number of frames of frame_length that fit
FrameCount(padded_len, frame_length, hop) == 1 + (padded_len - frame_length) \div hop

\* librosa.util.MAX_MEM_BLOCK in bytes, and the size in bytes of a float64 sample
MAX_MEM_BLOCK == 262144
ItemSize == 8

\* the number of columns librosa.stft transforms and stores at a time
BlockColumns(n_fft) == Max(MAX_MEM_BLOCK \div (n_fft * ItemSize), 1)

\* a column of the pre-allocated matrix that no frame has been stored in
NoFrame == -1

\* librosa.util.frame on a buffer whose first sample is sample origin of the
\* padded signal: the start, in the padded signal, of every frame that fits
FrameStarts(origin, buf_len, frame_length, hop) ==
    [j \in 1..FrameCount(buf_len, frame_length, hop) |-> origin + (j - 1) * hop]

\* a variant of BlockColumn that forgets the columns of the head frames
BlockColumnNoOffset(bl_s, off_start) == bl_s

\* the first column of the block of middle frames that starts at frame bl_s
BlockColumn(bl_s, off_start) == bl_s + off_start

\* the stores of the block loop: block b holds the frames bl_s+1..bl_t and goes
\* to the columns from BlockColumn(bl_s, off_start) on (0-based)
BlockWrites(frames, off_start, n_columns) ==
    [b \in 1..CeilDiv(Len(frames), n_columns) |->
        LET bl_s == (b - 1) * n_columns
            bl_t == Min(bl_s + n_columns, Len(frames))
        IN  [at |-> BlockColumn(bl_s, off_start),
             starts |-> SubSeq(frames, bl_s + 1, bl_t)]]

\* the framing of librosa.stft: the number of columns of the matrix and the
\* stores that fill it, in program order.  Without centering, or when the
\* frames touching the left and the right padding overlap, the whole padded
\* signal is framed.  Otherwise the head frames (touching the left padding)
\* and the tail frames (touching the right padding) are framed from padded
\* copies of the two ends and stored first, and the middle frames are framed
\* from the signal itself.  short: a buffer is shorter than one frame.
StftWrites(y_len, n_fft, hop, center) ==
    LET pad     == PadAmount(n_fft, center)
        start_k == CeilDiv(pad, hop)
        tail_k  == (y_len + pad - n_fft) \div hop + 1
    IN  IF ~(center /\ tail_k > start_k)
        THEN LET buf    == y_len + 2 * pad
                 frames == FrameStarts(0, buf, n_fft, hop)
             IN  [short |-> buf < n_fft, total |-> Len(frames),
                  writes |-> BlockWrites(frames, 0, BlockColumns(n_fft))]
        ELSE LET start    == start_k * hop - pad
                 pre_len  == Min(y_len, (start_k - 1) * hop - pad + n_fft + 1) + pad
                 pre_all  == FrameStarts(0, pre_len, n_fft, hop)
                 pre      == SubSeq(pre_all, 1, Min(start_k, Len(pre_all)))
                 has_post == tail_k * hop - pad + n_fft <= y_len + pad
                 post_len == y_len - (tail_k * hop - pad) + pad
                 post     == IF has_post
                             THEN FrameStarts(tail_k * hop, post_len, n_fft, hop)
                             ELSE <<>>
                 mid      == FrameStarts(start + pad, y_len - start, n_fft, hop)
                 extra    == Len(pre) + Len(post)
                 total    == Len(mid) + extra
                 warm     == IF extra = 0 THEN <<>>
                             ELSE <<[at |-> 0, starts |-> pre]>> \o
                                  (IF Len(post) > 0
                                   THEN <<[at |-> total - Len(post), starts |-> post]>>
                                   ELSE <<>>)
                 off_start == IF extra > 0 THEN Len(pre) ELSE 0
             IN  [short |-> \/ pre_len < n_fft
                            \/ has_post /\ post_len < n_fft
                            \/ y_len - start < n_fft,
                  total |-> total,
                  writes |-> warm \o BlockWrites(mid, off_start, BlockColumns(n_fft))]

\* the orders in which k stores can be carried out that the model draws:
\* program order <<0, FALSE>>, its rotations and their reversals
WriteOrders(k) == {<<r, d>> : r \in 0..Max(k - 1, 0), d \in BOOLEAN}

Reorder(writes, order) ==
    LET k       == Len(writes)
        rotated == [i \in 1..k |-> writes[((i - 1 + order[1]) % k) + 1]]
    IN  IF order[2] THEN Reverse(rotated) ELSE rotated

\* stft_matrix[..., at : at + len(starts)] = the transforms of those frames
Store(matrix, w) ==
    [c \in 1..Len(matrix) |->
        IF w.at < c /\ c <= w.at + Len(w.starts) THEN w.starts[c - w.at] ELSE matrix[c]]

RECURSIVE Assemble(_, _)
\* the matrix after the stores have been carried out one after the other
Assemble(matrix, writes) ==
    IF writes = <<>> THEN matrix
    ELSE Assemble(Store(matrix, Head(writes)), Tail(writes))

\* librosa.stft: win_length defaults to n_fft, hop_length to win_length // 4;
\* a non-positive hop, a window longer than n_fft or a buffer shorter than
\* one frame is a ParameterError.  The result is kept as its number of rows
\* and, per column, the start in the padded signal of the frame whose
\* transform the column holds.  order is the order the stores are carried
\* out in; librosa carries them out in program order.
stft(y_len, n_fft, hop_length, win_length, center, order) ==
    LET wl  == IF IsNone(win_length) THEN n_fft ELSE Get(win_length)
        hop == IF IsNone(hop_length) THEN wl \div 4 ELSE Get(hop_length)
    IN  IF hop < 1 THEN Raise("ParameterError", <<"stft">>)
        ELSE IF wl > n_fft \/ wl < 1 THEN Raise("ParameterError", <<"stft">>)
        ELSE LET plan == StftWrites(y_len, n_fft, hop, center)
             IN  IF plan.short THEN Raise("ParameterError", <<"stft">>)
                 ELSE [status |-> "ok", steps |-> <<"stft">>,
                       rows |-> 1 + n_fft \div 2,
                       frames |-> Assemble([c \in 1..plan.total |-> NoFrame],
                                           Reorder(plan.writes, order))]

\* the number of stores a call of librosa.stft carries out
StftWriteCount(y_len, n_fft, hop_length, win_length, center) ==
    LET wl  == IF IsNone(win_length) THEN n_fft ELSE Get(win_length)
        hop == IF IsNone(hop_length) THEN wl \div 4 ELSE Get(hop_length)
    IN  IF hop < 1 THEN 0 ELSE Len(StftWrites(y_len, n_fft, hop, center).writes)

\* compute_stft: the 1-D check, then librosa.stft; any exception re-raised
compute_stft(y, n_fft, hop_length, win_length, center, order) ==
    IF y.ndim # 1 THEN Raise("ValueError", <<>>)
    ELSE stft(y.len, n_fft, hop_length, win_length, center, order)

----------------------------------------------------------------------------
(* scipy.signal.welch, as called by compute_psd_welch *)

(* The signal is kept by its length alone: which segments are taken, and   *)
(* whether the call fails, do not depend on the samples.                   *)

\* the segment length scipy.signal.welch uses when nperseg is None
WelchDefaultNperseg == 256

\* the segment length used: nperseg, or the default, capped at len(x)
EffectiveNperseg(x_len, nperseg) ==
    Min(IF IsNone(nperseg) THEN WelchDefaultNperseg ELSE Get(nperseg), x_len)

\* the overlap used: noverlap, or half the effective segment length
EffectiveNoverlap(nper, noverlap) ==
    IF IsNone(noverlap) THEN nper \div 2 ELSE Get(noverlap)

\* welch: an empty x returns empty arrays before any parameter is looked at;
\* then nperseg < 1, an unknown window name, nfft < nperseg and
\* noverlap >= nperseg are each a ValueError.  The estimate is kept as the
\* segment length, the overlap and the start of every segment averaged.
welch(x_len, window, nperseg, noverlap, nfft) ==
    IF x_len = 0
    THEN [status |-> "ok", steps |-> <<"welch">>, nperseg |-> 0, noverlap |-> 0,
          segments |-> <<>>]
    ELSE IF ~IsNone(nperseg) /\ Get(nperseg) < 1 THEN Raise("ValueError", <<"welch">>)
    ELSE
    LET nper == EffectiveNperseg(x_len, nperseg)
        nov  == EffectiveNoverlap(nper, noverlap)
    IN  IF window \notin KnownWindows THEN Raise("ValueError", <<"welch">>)
        ELSE IF ~IsNone(nfft) /\ Get(nfft) < nper THEN Raise("ValueError", <<"welch">>)
        ELSE IF nov >= nper THEN Raise("ValueError", <<"welch">>)
        ELSE [status |-> "ok", steps |-> <<"welch">>, nperseg |-> nper, noverlap |-> nov,
              segments |-> [i \in 1..((x_len - nov) \div (nper - nov)) |->
                              (i - 1) * (nper - nov)]]

\* compute_psd_welch: the 1-D check, then scipy.signal.welch; any exception
\* is logged and re-raised
compute_psd_welch(x, window, nperseg, noverlap, nfft) ==
    IF x.ndim # 1 THEN Raise("ValueError", <<>>)
    ELSE welch(x.len, window, nperseg, noverlap, nfft)

----------------------------------------------------------------------------
(* amplitude_envelope *)

\* scipy.signal.hilbert followed by abs: the envelope has one entry per
\* sample; it is kept as a term over the samples, in the field envelope.  An empty signal makes
\* the transform inside hilbert raise.
hilbert_envelope(y) ==
    IF Len(y.v) = 0 THEN Raise("ValueError", <<"hilbert">>)
    ELSE [status |-> "ok", steps |-> <<"hilbert">>,
          envelope |-> [transform |-> "hilbert", of |-> y.v]]

\* the outcome of a call with the calls made to rms_energy
HilbertWithCalls(outcome) ==
    IF outcome.status = "ok"
    THEN [status |-> "ok", steps |-> outcome.steps, envelope |-> outcome.envelope,
          calls |-> <<>>]
    ELSE [status |-> outcome.status, steps |-> outcome.steps, calls |-> <<>>]

WithCalls(outcome, calls) ==
    IF outcome.status = "ok"
    THEN [status |-> "ok", value |-> outcome.value, steps |-> outcome.steps,
          calls |-> calls]
    ELSE [status |-> outcome.status, steps |-> outcome.steps, calls |-> calls]

\* a variant of amplitude_envelope that looks at frame_length and hop_length
\* before it looks at the capability
amplitude_envelope_params_first(y, method, frame_length, hop_length, available, rms) ==
    IF y.ndim # 1 THEN WithCalls(Raise("ValueError", <<>>), <<>>)
    ELSE IF method = "hilbert" THEN HilbertWithCalls(hilbert_envelope(y))
    ELSE IF method = "rms" THEN
         IF IsNone(frame_length) \/ IsNone(hop_length)
         THEN WithCalls(Raise("ValueError", <<>>), <<>>)
         ELSE IF ~available THEN WithCalls(Raise("ImportError", <<>>), <<>>)
         ELSE WithCalls(
                IF rms.raises THEN Raise("Exception", <<"rms_energy">>)
                ELSE Ok(rms.value, <<"rms_energy">>),
                <<[y |-> y, frame_length |-> Get(frame_length),
                   hop_length |-> Get(hop_length), center |-> TRUE, outcome |-> rms]>>)
    ELSE WithCalls(Raise("ValueError", <<>>), <<>>)

\* a variant of amplitude_envelope that degrades to the Hilbert envelope when
\* rms_energy is unavailable
amplitude_envelope_fallback(y, method, frame_length, hop_length, available, rms) ==
    IF y.ndim # 1 THEN WithCalls(Raise("ValueError", <<>>), <<>>)
    ELSE IF method = "hilbert" \/ (method = "rms" /\ ~available)
         THEN HilbertWithCalls(hilbert_envelope(y))
    ELSE IF method = "rms" THEN
         IF IsNone(frame_length) \/ IsNone(hop_length)
         THEN WithCalls(Raise("ValueError", <<>>), <<>>)
         ELSE WithCalls(
                IF rms.raises THEN Raise("Exception", <<"rms_energy">>)
                ELSE Ok(rms.value, <<"rms_energy">>),
                <<[y |-> y, frame_length |-> Get(frame_length),
                   hop_length |-> Get(hop_length), center |-> TRUE, outcome |-> rms]>>)
    ELSE WithCalls(Raise("ValueError", <<>>), <<>>)

\* amplitude_envelope.  available is _RMS_ENERGY_AVAILABLE; rms is what
\* rms_energy does if it is called: it raises, or returns rms.value.
amplitude_envelope(y, method, frame_length, hop_length, available, rms) ==
    IF y.ndim # 1 THEN WithCalls(Raise("ValueError", <<>>), <<>>)
    ELSE IF method = "hilbert" THEN HilbertWithCalls(hilbert_envelope(y))
    ELSE IF method = "rms" THEN
         IF ~available THEN WithCalls(Raise("ImportError", <<>>), <<>>)
         ELSE IF IsNone(frame_length) \/ IsNone(hop_length)
         THEN WithCalls(Raise("ValueError", <<>>), <<>>)
         ELSE WithCalls(
                IF rms.raises THEN Raise("Exception", <<"rms_energy">>)
                ELSE Ok(rms.value, <<"rms_energy">>),
                <<[y |-> y, frame_length |-> Get(frame_length),
                   hop_length |-> Get(hop_length), center |-> TRUE, outcome |-> rms]>>)
    ELSE WithCalls(Raise("ValueError", <<>>), <<>>)

----------------------------------------------------------------------------
(* Inputs *)

Signals == SeqsOf(Samples, 0, MaxLen)
NonEmptySignals == SeqsOf(Samples, 1, MaxLen)
Arrays == {Arr1(s) : s \in Signals} \cup {Arr2D}

\* the docstring example of compute_correlation (dsp.py:370-371)
DocCorrX == <<0, 1, 2, 1, 0>>
DocCorrY == <<0, 0, 1, 2, 1>>

\* correlation inputs: non-empty signals, a 2-D array, and the docstring pair
CorrArrays == {Arr1(s) : s \in NonEmptySignals} \cup {Arr2D}
CorrPairs == (CorrArrays \X CorrArrays) \cup {<<Arr1(DocCorrX), Arr1(DocCorrY)>>}

\* longest sequence drawn as the input of compute_autocorrelation
MaxAutoLen == 5
AutoArrays == {Arr1(s) : s \in SeqsOf(Samples, 1, MaxAutoLen)} \cup {Arr2D}

\* longest signal drawn as the data of compute_fft
MaxFftLen == 3

\* largest explicit transform length n drawn
MaxN == 4

\* samples of the signals handed to compute_fft: multiples of WinDen
FftSamples == {-4, 0, 8}

\* a 1-D array with its dtype
FftArr(s, dtype) == [ndim |-> 1, v |-> s, dtype |-> dtype]
FftArrays ==
    {FftArr(s, dt) : s \in SeqsOf(FftSamples, 0, MaxFftLen), dt \in {"float64", "object"}}
    \cup {[ndim |-> 2, v |-> <<>>, dtype |-> "float64"]}

\* the window argument: None, the empty string, known names, an unknown name
WindowArgs == {None, Some(""), Some("hann"), Some("boxcar"), Some("bogus")}

\* the window_type argument of apply_window: known names and an unknown one
WindowNames == {"hann", "boxcar", "bogus"}

\* the n argument: None or an explicit length
NArgs == {None} \cup {Some(k) : k \in 0..MaxN}

\* the fs argument
FsArgs == {0, 1, 2}

\* the docstring example of compute_stft (dsp.py:205-207): 2 s at 22050 Hz
DocStftLen == 44100
DocStftNfft == 1024
DocStftHop == 256

\* signal lengths of up to MaxHops hops of the docstring's hop length, on and
\* next to its multiples
MaxHops == 5
StftLens ==
    {DocStftLen} \cup
    ({DocStftHop * q + r : q \in 0..MaxHops, r \in {0, 1, DocStftHop - 1}} \ {0})
StftArrays == {[ndim |-> 1, len |-> n] : n \in StftLens} \cup {[ndim |-> 2, len |-> 0]}

\* n_fft with the hop_length and win_length arguments drawn for it
StftParams ==
    {<<DocStftNfft, Some(DocStftHop), None>>, <<DocStftNfft, None, None>>,
     <<DocStftNfft, Some(0), None>>, <<DocStftNfft, Some(DocStftHop), Some(2 * DocStftNfft)>>,
     <<DocStftNfft, None, Some(DocStftHop)>>}

\* longest short signal drawn as the x of compute_psd_welch
MaxWelchLen == 5

\* lengths of x: short ones, and ones around the default segment length
WelchLens ==
    (0..MaxWelchLen) \cup
    {WelchDefaultNperseg - 1, WelchDefaultNperseg, WelchDefaultNperseg + 1,
     2 * WelchDefaultNperseg + WelchDefaultNperseg \div 2}
WelchArrays == {[ndim |-> 1, len |-> n] : n \in WelchLens} \cup {[ndim |-> 2, len |-> 0]}

\* the nperseg, noverlap and nfft arguments
NpersegArgs == {None} \cup {Some(k) : k \in 0..(MaxWelchLen + 1)}
NoverlapArgs ==
    {None} \cup {Some(k) : k \in 0..MaxWelchLen}
    \cup {Some(WelchDefaultNperseg \div 2), Some(WelchDefaultNperseg)}
NfftArgs == {None, Some(2), Some(2 * WelchDefaultNperseg)}

\* what rms_energy may do when called
RmsOutcomes ==
    {[raises |-> TRUE, value |-> <<>>], [raises |-> FALSE, value |-> <<1>>],
     [raises |-> FALSE, value |-> <<2, 0>>]}

EnvelopeArrays == {Arr1(<<>>), Arr1(<<2>>), Arr1(<<-1, 2>>), Arr2D}
EnvelopeMethods == {"hilbert", "rms", "peak"}
FrameArgs == {None, Some(2)}
HopArgs == {None, Some(1)}

\* method='auto' lets choose_conv_method pick; an explicit method is kept
Chosen(method) == IF method = "auto" THEN {"direct", "fft"} ELSE {method}

----------------------------------------------------------------------------
(* The state machine *)

Init ==
    /\ rmsAvailable \in BOOLEAN
    /\ pc = "idle"
    /\ call = [op |-> "none"]
    /\ ret = [status |-> "none"]

Do_apply_convolution ==
    /\ pc = "idle"
    /\ \E data \in Arrays, kernel \in Arrays, mode \in Modes :
         /\ call' = [op |-> "apply_convolution", data |-> data,
                     kernel |-> kernel, mode |-> mode]
         /\ ret' = apply_convolution(data, kernel, mode)
    /\ pc' = "done"
    /\ UNCHANGED rmsAvailable

Do_compute_correlation ==
    /\ pc = "idle"
    /\ \E p \in CorrPairs, mode \in Modes, method \in Methods :
         \E chosen \in Chosen(method) :
           /\ call' = [op |-> "compute_correlation", x |-> p[1], y |-> p[2],
                       mode |-> mode, method |-> method, chosen |-> chosen]
           /\ ret' = compute_correlation(p[1], p[2], mode, method, chosen)
    /\ pc' = "done"
    /\ UNCHANGED rmsAvailable

Do_compute_autocorrelation ==
    /\ pc = "idle"
    /\ \E x \in AutoArrays, mode \in Modes, method \in Methods :
         \E chosen \in Chosen(method) :
           /\ call' = [op |-> "compute_autocorrelation", x |-> x,
                       mode |-> mode, method |-> method, chosen |-> chosen]
           /\ ret' = compute_autocorrelation(x, mode, method, chosen)
    /\ pc' = "done"
    /\ UNCHANGED rmsAvailable

Do_compute_fft ==
    /\ pc = "idle"
    /\ \E data \in FftArrays, fs \in FsArgs, n \in NArgs, window \in WindowArgs :
         /\ call' = [op |-> "compute_fft", data |-> data, fs |-> fs, n |-> n,
                     window |-> window]
         /\ ret' = compute_fft(data, fs, n, window)
    /\ pc' = "done"
    /\ UNCHANGED rmsAvailable

\* the caller hands the spectrum compute_fft has just returned to compute_ifft
Do_compute_ifft ==
    /\ pc = "done"
    /\ call.op = "compute_fft"
    /\ ret.status = "ok"
    /\ \E n \in {None, Some(Len(ret.spectrum))} :
         /\ call' = [op |-> "compute_ifft", spectrum |-> Arr1(ret.spectrum),
                     n |-> n, from |-> call]
         /\ ret' = compute_ifft(Arr1(ret.spectrum), n)
    /\ pc' = "done"
    /\ UNCHANGED rmsAvailable

Do_compute_stft ==
    /\ pc = "idle"
    /\ \E y \in StftArrays, p \in StftParams, center \in BOOLEAN :
         \E order \in WriteOrders(StftWriteCount(y.len, p[1], p[2], p[3], center)) :
           /\ call' = [op |-> "compute_stft", y |-> y, n_fft |-> p[1],
                       hop_length |-> p[2], win_length |-> p[3], center |-> center,
                       order |-> order]
           /\ ret' = compute_stft(y, p[1], p[2], p[3], center, order)
    /\ pc' = "done"
    /\ UNCHANGED rmsAvailable

Do_amplitude_envelope ==
    /\ pc = "idle"
    /\ \E y \in EnvelopeArrays, method \in EnvelopeMethods,
          frame_length \in FrameArgs, hop_length \in HopArgs, rms \in RmsOutcomes :
         /\ call' = [op |-> "amplitude_envelope", y |-> y, method |-> method,
                     frame_length |-> frame_length, hop_length |-> hop_length]
         /\ ret' = amplitude_envelope(y, method, frame_length, hop_length,
                                      rmsAvailable, rms)
    /\ pc' = "done"
    /\ UNCHANGED rmsAvailable

Do_compute_psd_welch ==
    /\ pc = "idle"
    /\ \E x \in WelchArrays, window \in WindowNames, nperseg \in NpersegArgs,
          noverlap \in NoverlapArgs, nfft \in NfftArgs :
         /\ call' = [op |-> "compute_psd_welch", x |-> x, window |-> Some(window),
                     nperseg |-> nperseg, noverlap |-> noverlap, nfft |-> nfft]
         /\ ret' = compute_psd_welch(x, window, nperseg, noverlap, nfft)
    /\ pc' = "done"
    /\ UNCHANGED rmsAvailable

\* apply_window called directly; the windowed samples are kept in windowed
Do_apply_window ==
    /\ pc = "idle"
    /\ \E data \in FftArrays, window_type \in WindowNames :
         /\ call' = [op |-> "apply_window", data |-> data, window_type |-> window_type]
         /\ ret' = LET r == apply_window(data, window_type)
                   IN  IF r.status = "ok"
                       THEN [status |-> "ok", steps |-> r.steps, windowed |-> r.value.v]
                       ELSE r
    /\ pc' = "done"
    /\ UNCHANGED rmsAvailable

\* the caller takes the outcome; the next call starts from a clean slate
Return ==
    /\ pc = "done"
    /\ pc' = "idle"
    /\ call' = [op |-> "none"]
    /\ ret' = [status |-> "none"]
    /\ UNCHANGED rmsAvailable

Next ==
    \/ Do_apply_convolution
    \/ Do_compute_correlation
    \/ Do_compute_autocorrelation
    \/ Do_compute_fft
    \/ Do_compute_ifft
    \/ Do_compute_stft
    \/ Do_amplitude_envelope
    \/ Do_apply_window
    \/ Do_compute_psd_welch
    \/ Return

Spec == Init /\ [][Next]_vars

----------------------------------------------------------------------------
(* Helpers of the properties *)

RECURSIVE MaxOf(_, _)
\* the largest of the first n entries of a non-empty sequence
MaxOf(s, n) == IF n = 1 THEN s[1] ELSE Max(s[n], MaxOf(s, n - 1))

\* numpy.argmax (1-based here): the first index holding the maximum
ArgMax(s) == CHOOSE i \in 1..Len(s) :
                /\ s[i] = MaxOf(s, Len(s))
                /\ \A j \in 1..(i - 1) : s[j] # s[i]

IsConstant(s) == \A i \in 1..Len(s) : s[i] = s[1]

Returned(op) == pc = "done" /\ call.op = op

----------------------------------------------------------------------------
(* Properties: convolution and correlation *)

\* a convolution call on two non-empty 1-D inputs has returned
ConvOnNonEmpty ==
    /\ Returned("apply_convolution")
    /\ call.data.ndim = 1 /\ call.kernel.ndim = 1
    /\ Len(call.data.v) >= 1 /\ Len(call.kernel.v) >= 1

\* C1 as stated: for non-empty 1-D inputs of lengths N and M the result has
\* length N+M-1 ('full'), max(N,M)-min(N,M)+1 ('valid'), max(N,M) ('same').
C1_LengthsAsStated ==
    ConvOnNonEmpty =>
        LET N == Len(call.data.v)
            M == Len(call.kernel.v)
        IN  /\ ret.status = "ok"
            /\ call.mode = "full"  => Len(ret.value) = N + M - 1
            /\ call.mode = "valid" => Len(ret.value) = Max(N, M) - Min(N, M) + 1
            /\ call.mode = "same"  => Len(ret.value) = Max(N, M)

\* C1 amended: as above, except that 'same' returns len(data) = N entries,
\* whether or not the kernel is longer than the data.
C1_Lengths ==
    ConvOnNonEmpty =>
        LET N == Len(call.data.v)
            M == Len(call.kernel.v)
        IN  /\ ret.status = "ok"
            /\ call.mode = "full"  => Len(ret.value) = N + M - 1
            /\ call.mode = "valid" => Len(ret.value) = Max(N, M) - Min(N, M) + 1
            /\ call.mode = "same"  => Len(ret.value) = N

\* a 'same' convolution with a kernel longer than the data has returned
C1_Witness ==
    /\ ConvOnNonEmpty
    /\ call.mode = "same"
    /\ Len(call.kernel.v) > Len(call.data.v)
    /\ Len(ret.value) = Len(call.data.v)

\* a 'full' correlation of two 1-D inputs has returned
FullCorrelationReturned ==
    /\ Returned("compute_correlation")
    /\ call.x.ndim = 1 /\ call.y.ndim = 1
    /\ call.mode = "full"

\* C2: the 'full' cross-correlation of x and y equals, index by index, the
\* 'full' convolution of x with the time-reversed y, whatever the method.
C2_CorrelationIsConvolutionWithReversed ==
    FullCorrelationReturned =>
        LET conv == apply_convolution(call.x, Arr1(Reverse(call.y.v)), "full")
        IN  /\ ret.status = "ok"
            /\ conv.status = "ok"
            /\ Len(ret.value) = Len(call.x.v) + Len(call.y.v) - 1
            /\ Len(conv.value) = Len(ret.value)
            /\ \A i \in 1..Len(ret.value) : ret.value[i] = conv.value[i]

\* a direct 'full' correlation with y longer than x and an asymmetric result
C2_Witness ==
    /\ FullCorrelationReturned
    /\ call.chosen = "direct"
    /\ Len(call.y.v) > Len(call.x.v)
    /\ ret.status = "ok"
    /\ ret.value # Reverse(ret.value)

\* a 'full' autocorrelation of a non-constant 1-D input of length >= 2 has returned
AutoOnNonConstant ==
    /\ Returned("compute_autocorrelation")
    /\ call.x.ndim = 1
    /\ call.mode = "full"
    /\ Len(call.x.v) >= 2
    /\ ~IsConstant(call.x.v)

\* C3: the 'full' autocorrelation of a non-constant sequence of length >= 2
\* has its maximum at index len(x)-1 (0-based) and at no other index.
C3_AutocorrelationPeakAtZeroLag ==
    AutoOnNonConstant =>
        LET N == Len(call.x.v)
        IN  /\ ret.status = "ok"
            /\ Len(ret.value) = 2 * N - 1
            /\ \A i \in 1..Len(ret.value) : i # N => ret.value[i] < ret.value[N]

\* an autocorrelation of a non-constant sequence with a negative side lobe
C3_Witness ==
    /\ AutoOnNonConstant
    /\ Len(call.x.v) >= 3
    /\ ret.status = "ok"
    /\ \E i \in 1..Len(ret.value) : ret.value[i] < 0

\* C4: correlating the docstring pair x=[0,1,2,1,0], y=[0,0,1,2,1] in mode
\* 'full' has its peak at lag +1, the lag of (0-based) index i being
\* i - (len(y) - 1).
C4_DocPeakAtLagPlusOne ==
    ( /\ Returned("compute_correlation")
      /\ call.x = Arr1(DocCorrX) /\ call.y = Arr1(DocCorrY)
      /\ call.mode = "full" )
    => /\ ret.status = "ok"
       /\ (ArgMax(ret.value) - 1) - (Len(call.y.v) - 1) = 1

\* C8: apply_convolution fails with an invalid-parameter error (ValueError),
\* and returns nothing, whenever data or kernel is an empty 1-D sequence.
C8_EmptyInputRejected ==
    ( /\ Returned("apply_convolution")
      /\ call.data.ndim = 1 /\ call.kernel.ndim = 1
      /\ (Len(call.data.v) = 0 \/ Len(call.kernel.v) = 0) )
    => ret.status = "ValueError"

----------------------------------------------------------------------------
(* Properties: the Fourier transform *)

\* every inverse transform of a spectrum of real data is real and rational
IfftIsRational ==
    Returned("compute_ifft") /\ ret.status = "ok" =>
        LET X == call.spectrum.v
            N == Len(X)
        IN  \A m \in 0..(N - 1) :
              /\ IsRational(WithConj(InvSum(X, m, N), N, 1))
              /\ \A i \in 1..Len(WithConj(InvSum(X, m, N), N, -1)) :
                    WithConj(InvSum(X, m, N), N, -1)[i] = 0

\* without a window, the inverse transform gives back the padded or
\* truncated data
RoundTripWithoutWindow ==
    ( /\ Returned("compute_ifft") /\ ret.status = "ok"
      /\ (IsNone(call.from.window) \/ call.from.window = Some("")) )
    => LET x == call.from.data.v
       IN  \A i \in 1..Len(ret.num) :
              ret.num[i] = ret.den * (IF i <= Len(x) THEN x[i] ELSE 0)

\* the transform length of a compute_fft call that returned
FftLength == IF IsNone(call.n) THEN Len(call.data.v) ELSE Get(call.n)

\* C5 as stated: for every transform length N >= 1, bins 0..floor(N/2) hold
\* the non-negative ascending frequencies k*fs/N and every remaining bin a
\* negative frequency, ascending toward 0 (frequencies as numerators over N).
C5_FrequencyAxisAsStated ==
    (Returned("compute_fft") /\ ret.status = "ok") =>
        LET N == FftLength
            f == ret.freqs
        IN  /\ Len(f) = N
            /\ \A k \in 0..(N - 1) :
                 /\ k <= N \div 2 => f[k + 1] = k * call.fs /\ f[k + 1] >= 0
                 /\ k > N \div 2 => f[k + 1] < 0
                 /\ (k > N \div 2 /\ k < N - 1) => f[k + 1] < f[k + 2]

\* C5 amended: bins 0..floor((N-1)/2) hold the non-negative ascending
\* frequencies k*fs/N; every remaining bin k (bin N/2 of an even N included)
\* holds the negative frequency (k-N)*fs/N, ascending toward 0; the sign and
\* the order of the bins are those of the index, whatever fs > 0.
C5_FrequencyAxis ==
    (Returned("compute_fft") /\ ret.status = "ok") =>
        LET N == FftLength
            f == ret.freqs
            h == (N - 1) \div 2
        IN  /\ N >= 1 /\ call.fs > 0
            /\ Len(f) = N
            /\ \A k \in 0..(N - 1) :
                 /\ k <= h => f[k + 1] = k * call.fs /\ f[k + 1] >= 0
                 /\ k > h => f[k + 1] = (k - N) * call.fs /\ f[k + 1] < 0
                 /\ (k < N - 1 /\ k # h) => f[k + 1] < f[k + 2]
            /\ N >= 2 => f[N] = -call.fs

\* a transform of even length 4 at fs = 2 has returned: bin 2 is -fs/2
C5_Witness ==
    /\ Returned("compute_fft") /\ ret.status = "ok"
    /\ call.n = Some(4) /\ call.fs = 2
    /\ ret.freqs = <<0, 2, -4, -2>>

\* compute_ifft has returned for the spectrum of compute_fft(x, n=N), called
\* with its default window 'hann' on float data, N >= len(x), and n=N
DefaultRoundTrip ==
    /\ Returned("compute_ifft")
    /\ call.from.data.dtype = "float64"
    /\ call.from.window = Some("hann")
    /\ ~IsNone(call.from.n) /\ Get(call.from.n) >= Len(call.from.data.v)
    /\ call.n = call.from.n

\* C6: compute_ifft(compute_fft(x, n=N) spectrum, n=N), N >= len(x),
\* reproduces x in its first len(x) samples (sample i is num[i]/den).
C6_RoundTripReproducesInput ==
    DefaultRoundTrip =>
        /\ ret.status = "ok"
        /\ \A i \in 1..Len(call.from.data.v) :
              ret.num[i] = ret.den * call.from.data.v[i]

\* a window name was supplied and it is unknown, or applying it fails
WindowingFails ==
    /\ ~IsNone(call.window)
    /\ apply_window(call.data, Get(call.window)).status # "ok"

\* C7: when a window name is supplied and it is not a known window type, or
\* applying the window fails, compute_fft fails with an error: it never
\* returns a spectrum.
C7_WindowFailureIsAnError ==
    (Returned("compute_fft") /\ WindowingFails) => ret.status # "ok"

----------------------------------------------------------------------------
(* Properties: the short-time transform and the envelope *)

\* a centered transform with the docstring's n_fft and hop_length has returned
DocStftReturned ==
    /\ Returned("compute_stft")
    /\ call.y.ndim = 1
    /\ call.center
    /\ call.n_fft = DocStftNfft
    /\ call.hop_length = Some(DocStftHop)
    /\ IsNone(call.win_length)

\* C9 as stated: with center=True, n_fft=1024, hop_length=256 and a signal of
\* length n the result has 513 rows and ceil(n/256) columns (173 for n=44100).
C9_StftShapeAsStated ==
    DocStftReturned =>
        /\ ret.status = "ok"
        /\ ret.rows = 513
        /\ Len(ret.frames) = CeilDiv(call.y.len, 256)
        /\ call.y.len = 44100 => Len(ret.frames) = 173

\* C9 amended: the result has 513 rows and 1 + floor(n/256) columns, which is
\* ceil(n/256) exactly when 256 does not divide n; 173 columns for n=44100.
C9_StftShape ==
    DocStftReturned =>
        /\ ret.status = "ok"
        /\ ret.rows = 513
        /\ Len(ret.frames) = 1 + call.y.len \div 256
        /\ (Len(ret.frames) = CeilDiv(call.y.len, 256)) <=> (call.y.len % 256 # 0)
        /\ call.y.len = 44100 => Len(ret.frames) = 173

\* the docstring's transform of the 44100-sample signal has returned 173 columns
C9_Witness ==
    /\ DocStftReturned
    /\ call.y.len = 44100
    /\ ret.status = "ok"
    /\ Len(ret.frames) = 173

\* the one call the RMS mode makes to rms_energy
RmsCallOf(c) ==
    [y |-> call.y, frame_length |-> Get(call.frame_length),
     hop_length |-> Get(call.hop_length), center |-> TRUE, outcome |-> c.outcome]

\* C10 as stated (for a 1-D signal): the RMS mode fails with a
\* missing-capability error (ImportError) whenever rms_energy is unavailable,
\* and otherwise calls it exactly once with (y, frame_length, hop_length,
\* center=True) and returns its result unmodified.
C10_RmsModeAsStated ==
    (Returned("amplitude_envelope") /\ call.method = "rms" /\ call.y.ndim = 1) =>
        /\ ~rmsAvailable => ret.status = "ImportError" /\ ret.calls = <<>>
        /\ rmsAvailable =>
             /\ Len(ret.calls) = 1
             /\ ret.calls[1].y = call.y /\ ret.calls[1].center
             /\ Some(ret.calls[1].frame_length) = call.frame_length
             /\ Some(ret.calls[1].hop_length) = call.hop_length
             /\ ret.status = "ok" => ret.value = ret.calls[1].outcome.value

\* C10 amended: for a 1-D input the RMS mode fails with ImportError whenever
\* rms_energy is unavailable, without calling anything; when it is available
\* and frame_length and hop_length are both given it calls rms_energy exactly
\* once with (y, frame_length, hop_length, center=True) and returns its result
\* unmodified (or lets its exception through); when it is available and one of
\* them is None it raises ValueError without calling it; a non-1-D input is
\* a ValueError before the capability is looked at.  No envelope is ever
\* returned while the capability is missing.
C10_RmsMode ==
    (Returned("amplitude_envelope") /\ call.method = "rms") =>
        /\ call.y.ndim # 1 => ret.status = "ValueError" /\ ret.calls = <<>>
        /\ (call.y.ndim = 1 /\ ~rmsAvailable) =>
             ret.status = "ImportError" /\ ret.calls = <<>>
        /\ ~rmsAvailable => ret.status # "ok"
        /\ (call.y.ndim = 1 /\ rmsAvailable
              /\ (IsNone(call.frame_length) \/ IsNone(call.hop_length))) =>
             ret.status = "ValueError" /\ ret.calls = <<>>
        /\ (call.y.ndim = 1 /\ rmsAvailable
              /\ ~IsNone(call.frame_length) /\ ~IsNone(call.hop_length)) =>
             /\ Len(ret.calls) = 1
             /\ ret.calls[1] = RmsCallOf(ret.calls[1])
             /\ IF ret.calls[1].outcome.raises
                THEN ret.status = "Exception"
                ELSE ret.status = "ok" /\ ret.value = ret.calls[1].outcome.value

\* the RMS mode has failed with ImportError on a 1-D input with both frame
\* parameters given
C10_Witness ==
    /\ Returned("amplitude_envelope") /\ call.method = "rms"
    /\ ~rmsAvailable
    /\ call.y = Arr1(<<-1, 2>>)
    /\ call.frame_length = Some(2) /\ call.hop_length = Some(1)
    /\ ret.status = "ImportError"

----------------------------------------------------------------------------
(* Properties: apply_window *)

\* C11: apply_window fails with an invalid-parameter error (ValueError) for
\* every unknown window type name and for every length L < 1, the empty
\* input (L = 0) included; it returns no windowed result in those cases.
C11_WindowErrors ==
    (/\ Returned("apply_window")
     /\ call.data.ndim = 1
     /\ (call.window_type \notin KnownWindows \/ Len(call.data.v) < 1))
    => ret.status = "ValueError"

\* the part of C11 the code does keep: an unknown name is always a ValueError
UnknownWindowNameRejected ==
    (Returned("apply_window") /\ call.window_type \notin KnownWindows)
    => ret.status = "ValueError"

----------------------------------------------------------------------------
(* Properties: compute_psd_welch *)

\* a Welch call on a 1-D x has returned; the segment length and the overlap
\* the claim speaks of
WelchReturned == Returned("compute_psd_welch") /\ call.x.ndim = 1
WelchNperseg == EffectiveNperseg(call.x.len, call.nperseg)
WelchNoverlap == EffectiveNoverlap(WelchNperseg, call.noverlap)

\* consecutive segments of the estimate returned advance by step samples
SegmentsAdvanceBy(step) ==
    /\ Len(ret.segments) >= 1 => ret.segments[1] = 0
    /\ \A i \in 1..(Len(ret.segments) - 1) :
          ret.segments[i + 1] - ret.segments[i] = step

\* C12: compute_psd_welch fails with an invalid-parameter error (ValueError)
\* and returns no estimate whenever noverlap >= nperseg, nperseg being the
\* effective segment length (256 when unset, capped at len(x)) and noverlap
\* defaulting to nperseg/2; with noverlap < nperseg the call, when it
\* returns, has advanced consecutive segments by nperseg - noverlap samples.
C12_WelchOverlap ==
    WelchReturned =>
        /\ WelchNoverlap >= WelchNperseg => ret.status = "ValueError"
        /\ (WelchNoverlap < WelchNperseg /\ ret.status = "ok")
              => SegmentsAdvanceBy(WelchNperseg - WelchNoverlap)

\* what the code keeps of C12: the same, for a non-empty x
WelchOverlapOnNonEmpty ==
    (WelchReturned /\ call.x.len >= 1) =>
        /\ WelchNoverlap >= WelchNperseg => ret.status = "ValueError"
        /\ (WelchNoverlap < WelchNperseg /\ ret.status = "ok")
              => (/\ ret.nperseg = WelchNperseg /\ ret.noverlap = WelchNoverlap
                  /\ SegmentsAdvanceBy(WelchNperseg - WelchNoverlap))

\* a Welch estimate over at least three segments has been returned
WelchSeveralSegments ==
    WelchReturned /\ ret.status = "ok" /\ Len(ret.segments) >= 3

----------------------------------------------------------------------------
(* Properties: when errors are raised *)

\* the invalid-shape, invalid-parameter and missing-capability errors
EagerErrorKinds == {"ValueError", "ParameterError", "ImportError"}

\* the steps that compute: the window multiplication, the transforms and the
\* delegated library computations
ComputationSteps ==
    {"multiply", "fft", "ifft", "stft", "welch", "hilbert", "rms_energy",
     "fftconvolve", "correlate"}

\* the array arguments of the call that has returned
CallArrays ==
    CASE call.op = "apply_convolution"       -> {call.data, call.kernel}
      [] call.op = "compute_correlation"     -> {call.x, call.y}
      [] call.op = "compute_autocorrelation" -> {call.x}
      [] call.op = "compute_fft"             -> {call.data}
      [] call.op = "compute_ifft"            -> {call.spectrum}
      [] call.op = "compute_stft"            -> {call.y}
      [] call.op = "compute_psd_welch"       -> {call.x}
      [] call.op = "amplitude_envelope"      -> {call.y}
      [] call.op = "apply_window"            -> {call.data}
      [] OTHER                               -> {}

\* C13: in every operation, a call that ends with an invalid-shape,
\* invalid-parameter or missing-capability error has raised it before any
\* computation step of the call was started: the step that raises is the last
\* one entered, and no computation step was entered before it.
C13_ErrorsAreEager ==
    (pc = "done" /\ ret.status \in EagerErrorKinds) =>
        \A i \in 1..(Len(ret.steps) - 1) : ret.steps[i] \notin ComputationSteps

\* the part of C13 the code does keep: a non-1-D input is rejected as the
\* first step of every operation, with ValueError
NonOneDRejectedFirst ==
    (pc = "done" /\ \E a \in CallArrays : a.ndim # 1) =>
        ret.status = "ValueError" /\ ret.steps = <<>>

----------------------------------------------------------------------------
(* Properties: the columns of compute_stft *)

\* a transform has been returned by compute_stft; the hop it used
StftReturnedOk == Returned("compute_stft") /\ ret.status = "ok"
CallHop ==
    IF IsNone(call.hop_length)
    THEN (IF IsNone(call.win_length) THEN call.n_fft ELSE Get(call.win_length)) \div 4
    ELSE Get(call.hop_length)

----------------------------------------------------------------------------
(* Properties: windowing and the transform length in compute_fft *)

\* compute_fft has returned a spectrum for float64 data, a window name that
\* get_window knows and an explicit n other than len(data)
WindowedWithExplicitN ==
    /\ Returned("compute_fft") /\ ret.status = "ok"
    /\ call.data.dtype = "float64"
    /\ ~IsNone(call.window) /\ Get(call.window) \in KnownWindows
    /\ ~IsNone(call.n) /\ Get(call.n) # Len(call.data.v)

\* data[i] times coefficient i of the named window of length L
WindowedSample(i, L) ==
    (call.data.v[i] * get_window(Get(call.window), L).value[i]) \div WinDen

\* the whole input under a window of length len(data), then padded with
\* zeros or cut to its first n samples
WindowThenFit ==
    [i \in 1..Get(call.n) |->
        IF i <= Len(call.data.v) THEN WindowedSample(i, Len(call.data.v)) ELSE 0]

\* the sequence whose transform was returned, times 2n: the inverse
\* transform of the spectrum
TransformedTimes2N == IFFT2N(ret.spectrum, Get(call.n))

WindowedAndPadded ==
    /\ WindowedWithExplicitN
    /\ Get(call.window) = "hann"
    /\ Get(call.n) > Len(call.data.v)
    /\ \E i \in 1..Len(call.data.v) : WindowThenFit[i] # 0

----------------------------------------------------------------------------
(* Properties: the order of the checks of amplitude_envelope *)

\* frame_length or hop_length was left at None
FrameParamsMissing == IsNone(call.frame_length) \/ IsNone(call.hop_length)

\* C16: amplitude_envelope checks shape, method, capability and parameters
\* in that order: a non-1-D input raises ValueError for every method value,
\* unsupported ones included; with method='rms' and rms_energy unavailable
\* ImportError is raised even when frame_length or hop_length is None; the
\* ValueError for a missing frame_length or hop_length is raised only when
\* rms_energy is available; method='hilbert' consults neither the capability
\* nor the frame parameters.
C16_CheckOrder ==
    Returned("amplitude_envelope") =>
        /\ call.y.ndim # 1 =>
              ret.status = "ValueError" /\ ret.steps = <<>> /\ ret.calls = <<>>
        /\ (call.y.ndim = 1 /\ call.method = "rms" /\ ~rmsAvailable) =>
              ret.status = "ImportError" /\ ret.steps = <<>>
        /\ (call.y.ndim = 1 /\ call.method = "rms" /\ FrameParamsMissing) =>
              /\ ret.status = "ValueError" <=> rmsAvailable
              /\ ret.calls = <<>>
        /\ (call.y.ndim = 1 /\ call.method = "hilbert") =>
              /\ ret.steps = <<"hilbert">> /\ ret.calls = <<>>
              /\ ret.status = (IF Len(call.y.v) >= 1 THEN "ok" ELSE "ValueError")
              /\ ret.status = "ok" => ret.envelope.of = call.y.v

\* the RMS mode was asked for without frame parameters while rms_energy is
\* unavailable, and the call raised ImportError
C16_Witness ==
    /\ Returned("amplitude_envelope")
    /\ call.y.ndim = 1 /\ call.method = "rms"
    /\ ~rmsAvailable /\ FrameParamsMissing
    /\ ret.status = "ImportError"

\* a non-1-D input was rejected although the method is unsupported
UnsupportedMethodOnNonOneD ==
    /\ Returned("amplitude_envelope")
    /\ call.y.ndim # 1 /\ call.method \notin {"hilbert", "rms"}
    /\ ret.status = "ValueError"

====
